---- MODULE Spec2Model ----
(***************************************************************************)
(* Model of config-merger/script/merge_config.py (retina-node): the        *)
(* three-layer configuration merge (default.yml -> user.yml -> forced.yml),*)
(* the node-id injection into user.yml, and the files the script reads and *)
(* writes, with one or more invocations of main running on the same user   *)
(* overlay.                                                                *)
(*                                                                         *)
(* Configuration trees are tagged records: a scalar or a sequence carries  *)
(* its characters/items as a tuple of integers (ASCII codes for strings),  *)
(* a mapping carries a function from its keys to trees.  A file is a       *)
(* record with its state on disk, the document its text parses to and the  *)
(* way the text was produced (authored by hand, or emitted by yaml.dump).  *)
(***************************************************************************)
EXTENDS Integers, Sequences, FiniteSets, TLC

VARIABLES
    cpuinfo,       \* /proc/cpuinfo as get_rpi_serial reads it (never written)
    fault,         \* the system call that fails with OSError, if any
    argv,          \* command line of every invocation
    defaultFile,   \* <defaults_dir>/default.yml
    forcedFile,    \* <defaults_dir>/forced.yml
    envFile,       \* <dir of output>/tar1090.env, one per invocation (never written)
    userFile,      \* <user_config_path>, shared by all invocations
    tmpFile,       \* <user_config_path>.tmp.<pid>, one per invocation
    nidTmpFile,    \* <user_config_path>.node_id_tmp.<pid>, one per invocation
    outFile,       \* <output_config_path>, one per invocation (per container)
    debugFile,     \* <debug_copy_path>, one per invocation
    initial,       \* the user, output, debug and env files as they were before the run
    pc,            \* position of every invocation in main / ensure_node_id
    exit,          \* exit code of every invocation (meaningful once pc = "done")
    config,        \* main's local `config`
    user,          \* main's local `user`
    forced,        \* main's local `forced`
    user_config,   \* ensure_node_id's local `user_config`
    log            \* what every invocation has printed (tags of the messages)

vars == <<cpuinfo, fault, argv, defaultFile, forcedFile, envFile, userFile, tmpFile, nidTmpFile,
          outFile, debugFile, initial, pc, exit, config, user, forced,
          user_config, log>>

\* Number of invocations of main that share the user overlay.
NumProcs == 2

Procs == 1 .. NumProcs

---------------------------------------------------------------------------
(* Configuration trees                                                     *)

Null == [t |-> "null", v |-> <<>>]              \* Python None / empty document
Sc(s) == [t |-> "scalar", v |-> s]              \* a non-empty string or number
Sq(s) == [t |-> "seq", v |-> s]                 \* a list
Mp(f) == [t |-> "map", v |-> f]                 \* a dict
EmptyMap == Mp([k \in {} |-> Null])

IsMap(n) == n.t = "map"
Keys(n) == IF IsMap(n) THEN DOMAIN n.v ELSE {}
HasKey(n, k) == IsMap(n) /\ k \in DOMAIN n.v

\* `is not None` where the code tests truthiness.
NotNone(n) == n.t # "null"

\* Python truthiness of a loaded document: None, {} and [] are falsy.
Truthy(n) ==
    CASE n.t = "null" -> FALSE
      [] n.t = "map" -> DOMAIN n.v # {}
      [] n.t = "seq" -> n.v # <<>>
      [] OTHER -> TRUE

\* d[k] = val on a dict.
SetKey(n, k, val) == Mp([j \in DOMAIN n.v \cup {k} |-> IF j = k THEN val ELSE n.v[j]])

---------------------------------------------------------------------------
(* merge(destination, source) of mergedeep with its default strategy       *)
(* (REPLACE), as main calls it: for every key of the source, recurse when  *)
(* the key is in the destination and both values are mappings, otherwise   *)
(* the destination takes (a copy of) the source's value.                   *)

\* A merge that replaces a nested mapping instead of recursing into it.
MergeShallow(dst, src) ==
    Mp([k \in DOMAIN dst.v \cup DOMAIN src.v |->
          IF k \in DOMAIN src.v THEN src.v[k] ELSE dst.v[k]])

\* A merge that extends a sequence with the overlay's items instead of replacing it.
RECURSIVE MergeAdditive(_, _)
MergeAdditive(dst, src) ==
    Mp([k \in DOMAIN dst.v \cup DOMAIN src.v |->
          IF k \notin DOMAIN src.v THEN dst.v[k]
          ELSE IF k \in DOMAIN dst.v /\ IsMap(dst.v[k]) /\ IsMap(src.v[k])
               THEN MergeAdditive(dst.v[k], src.v[k])
          ELSE IF k \in DOMAIN dst.v /\ dst.v[k].t = "seq" /\ src.v[k].t = "seq"
               THEN Sq(dst.v[k].v \o src.v[k].v)
          ELSE src.v[k]])

RECURSIVE merge(_, _)
merge(dst, src) ==
    Mp([k \in DOMAIN dst.v \cup DOMAIN src.v |->
          IF k \notin DOMAIN src.v THEN dst.v[k]
          ELSE IF k \in DOMAIN dst.v /\ IsMap(dst.v[k]) /\ IsMap(src.v[k])
               THEN merge(dst.v[k], src.v[k])
          ELSE src.v[k]])

\* merge raises (TypeError/IndexError) when one of its arguments is a truthy
\* document that is not a mapping (a list of strings, a scalar).
MergeRaises(dst, src) == ~IsMap(dst) \/ ~IsMap(src)

\* Line 151: merge(config, user)
MergeUser(cfg, usr) == merge(cfg, usr)

\* The arguments of line 163 exchanged: the forced layer as the destination.
MergeForcedSwapped(cfg, frc) == merge(frc, cfg)

\* Line 163: merge(config, forced)
MergeForced(cfg, frc) == merge(cfg, frc)

---------------------------------------------------------------------------
(* Files and YAML                                                          *)

Bad == [t |-> "bad", v |-> <<>>]        \* text that yaml.safe_load rejects

Absent == [st |-> "absent", doc |-> Null, fmt |-> "none"]
\* opened with mode 'w' (truncated) and not yet written and closed
Partial == [st |-> "partial", doc |-> Null, fmt |-> "none"]
\* a complete file that the process may not open (PermissionError)
NoPerm == [st |-> "noperm", doc |-> Null, fmt |-> "none"]
\* a complete, readable text file: the document it parses to, and whether the
\* text is as authored ("src": comments, layout) or as yaml.dump emits it
Text(d, f) == [st |-> "text", doc |-> d, fmt |-> f]

Exists(f) == f.st # "absent"                    \* os.path.exists

\* open(path, 'r') raises: the file is missing or may not be read.
OpenRaises(f) == f.st \in {"absent", "noperm"}

\* yaml.safe_load(f) raises: malformed text (a file cut short while it is
\* written is read as malformed text).
LoadRaises(f) == f.st = "partial" \/ f.doc = Bad

\* yaml.safe_load(f) of a file that opens and parses.
safe_load(f) == f.doc

\* yaml.dump(tree, f, default_flow_style=False, sort_keys=False), file closed.
dump(tree) == Text(tree, "dump")

\* A copy that creates the destination and writes nothing to it.
CopyNothing(f) == Text(Null, "src")

\* shutil.copy(src, dst), file closed: the bytes of src.
copy(f) == f

---------------------------------------------------------------------------
(* get_rpi_serial                                                          *)

\* len(serial) >= 8 at line 44, serial[-8:] at line 45
SerialMinLen == 8
SerialTail == 8

\* '0' is 48 in ASCII; the placeholder is sixteen of them
Placeholder == <<48, 48, 48, 48, 48, 48, 48, 48, 48, 48, 48, 48, 48, 48, 48, 48>>

NoSerial == <<>>                                \* None

\* The loop over the lines that start with 'Serial': the first one whose
\* value qualifies is returned, the others are passed over.
RECURSIVE FirstSerial(_)
FirstSerial(lines) ==
    IF lines = <<>> THEN NoSerial
    ELSE IF Len(Head(lines)) >= SerialMinLen /\ Head(lines) # Placeholder
         THEN SubSeq(Head(lines), Len(Head(lines)) - SerialTail + 1, Len(Head(lines)))
    ELSE FirstSerial(Tail(lines))

\* A variant without the length test of line 44.
RECURSIVE FirstSerialAnyLength(_)
FirstSerialAnyLength(lines) ==
    IF lines = <<>> THEN NoSerial
    ELSE IF Head(lines) # Placeholder
         THEN SubSeq(Head(lines),
                     IF Len(Head(lines)) > SerialTail THEN Len(Head(lines)) - SerialTail + 1 ELSE 1,
                     Len(Head(lines)))
    ELSE FirstSerialAnyLength(Tail(lines))

get_rpi_serial_any_length(cpu) ==
    IF ~cpu.readable THEN NoSerial
    ELSE IF ~cpu.raspberry /\ ~cpu.bcm THEN NoSerial
    ELSE FirstSerialAnyLength(cpu.serials)

get_rpi_serial(cpu) ==
    IF ~cpu.readable THEN NoSerial                          \* open raises: caught
    ELSE IF ~cpu.raspberry /\ ~cpu.bcm THEN NoSerial
    ELSE FirstSerial(cpu.serials)

\* f"ret{serial}"
Ret == <<114, 101, 116>>
NodeId(serial) == Sc(Ret \o serial)

---------------------------------------------------------------------------
(* ensure_node_id: the decisions of lines 57-82 on the loaded overlay      *)

\* yaml.safe_load(f) or {}
LoadedOrEmpty(f) == IF Truthy(safe_load(f)) THEN safe_load(f) ELSE EmptyMap

\* Lines 68-82 raise (TypeError) when the overlay is not a mapping, or holds
\* a 'network' entry that is not a mapping.
NodeIdRaises(uc) ==
    \/ ~IsMap(uc)
    \/ HasKey(uc, "network") /\ ~IsMap(uc.v["network"])

\* A variant that looks for node_id at the top of the overlay.
HasNodeIdAtTop(uc) == HasKey(uc, "node_id")

\* 'network' in user_config and 'node_id' in user_config['network']
HasNodeId(uc) == HasKey(uc, "network") /\ HasKey(uc.v["network"], "node_id")

\* A variant of lines 80-82 that rebuilds the network section from scratch.
SetNodeIdFresh(uc, id) == SetKey(uc, "network", SetKey(EmptyMap, "node_id", id))

\* A variant that appends the identifier to the stored one instead of
\* replacing it.
SetNodeIdAppended(uc, id) ==
    SetKey(uc, "network",
           SetKey(IF HasKey(uc, "network") THEN uc.v["network"] ELSE EmptyMap,
                  "node_id",
                  IF HasKey(uc, "network") /\ HasKey(uc.v["network"], "node_id")
                     /\ uc.v["network"].v["node_id"].t = "scalar"
                  THEN Sc(uc.v["network"].v["node_id"].v \o id.v) ELSE id))

\* Lines 80-82: create the network section if needed, set node_id in it.
SetNodeId(uc, id) ==
    SetKey(uc, "network",
           SetKey(IF HasKey(uc, "network") THEN uc.v["network"] ELSE EmptyMap,
                  "node_id", id))

---------------------------------------------------------------------------
(* main and ensure_node_id, one action per step that touches a file        *)

\* len(sys.argv) that main accepts (line 99)
ArgvLen == 5

Goto(p, l) == pc' = [pc EXCEPT ![p] = l]
Say(p, m) == log' = [log EXCEPT ![p] = @ \cup {m}]

\* sys.exit(1): at line 102, at line 121, or from the handler of lines 179-183
Die(p, m) ==
    /\ Goto(p, "done")
    /\ exit' = [exit EXCEPT ![p] = 1]
    /\ Say(p, m)

\* The process runs: it was started at once, or it is the next of a sequence
\* of invocations and the ones before it have exited.
Started(p) ==
    \/ pc[p] = "start"
    \/ pc[p] = "queued" /\ \A q \in Procs : q < p => pc[q] = "done"

\* Lines 99-121: the argument count, then default.yml is opened, parsed and
\* tested for content.
main_load_default(p) ==
    /\ Started(p)
    /\ IF argv[p].len # ArgvLen
       THEN Die(p, "usage") /\ UNCHANGED config
       ELSE IF OpenRaises(defaultFile) \/ LoadRaises(defaultFile)
       THEN Die(p, "error") /\ UNCHANGED config
       ELSE IF ~Truthy(safe_load(defaultFile))
       THEN Die(p, "default_empty") /\ config' = [config EXCEPT ![p] = safe_load(defaultFile)]
       ELSE /\ config' = [config EXCEPT ![p] = safe_load(defaultFile)]
            /\ Goto(p, "check_user")
            /\ UNCHANGED <<exit, log>>
    /\ UNCHANGED <<cpuinfo, fault, argv, defaultFile, forcedFile, envFile, userFile, tmpFile, nidTmpFile,
                   outFile, debugFile, initial, user, forced, user_config>>

\* Line 124: os.path.exists(user_config_path)
main_check_user(p) ==
    /\ pc[p] = "check_user"
    /\ IF Exists(userFile)
       THEN Goto(p, "ensure") /\ UNCHANGED log
       ELSE Goto(p, "copy_open") /\ Say(p, "user_not_found")
    /\ UNCHANGED <<cpuinfo, fault, argv, defaultFile, forcedFile, envFile, userFile, tmpFile, nidTmpFile,
                   outFile, debugFile, initial, exit, config, user, forced, user_config>>

\* A variant that copies default.yml straight onto the overlay's own path.
main_copy_open_in_place(p) ==
    /\ pc[p] = "copy_open"
    /\ userFile' = Partial
    /\ tmpFile' = [tmpFile EXCEPT ![p] = Partial]
    /\ Goto(p, "copy_close")
    /\ UNCHANGED <<cpuinfo, fault, argv, defaultFile, forcedFile, envFile, nidTmpFile,
                   outFile, debugFile, initial, exit, config, user, forced, user_config, log>>

\* Lines 126-130, first half: shutil.copy creates/truncates the temp file.
main_copy_open(p) ==
    /\ pc[p] = "copy_open"
    /\ tmpFile' = [tmpFile EXCEPT ![p] = Partial]
    /\ Goto(p, "copy_close")
    /\ UNCHANGED <<cpuinfo, fault, argv, defaultFile, forcedFile, envFile, userFile, nidTmpFile,
                   outFile, debugFile, initial, exit, config, user, forced, user_config, log>>

\* A variant with the arguments of shutil.copy exchanged: the temp file is
\* copied onto default.yml.
main_copy_close_reversed(p) ==
    /\ pc[p] = "copy_close"
    /\ defaultFile' = copy(tmpFile[p])
    /\ Goto(p, "rename_user")
    /\ UNCHANGED <<cpuinfo, fault, argv, forcedFile, envFile, userFile, tmpFile, nidTmpFile,
                   outFile, debugFile, initial, exit, config, user, forced, user_config, log>>

\* Line 130, second half: the bytes of default.yml are in the temp file.
main_copy_close(p) ==
    /\ pc[p] = "copy_close"
    /\ tmpFile' = [tmpFile EXCEPT ![p] = copy(defaultFile)]
    /\ Goto(p, "rename_user")
    /\ UNCHANGED <<cpuinfo, fault, argv, defaultFile, forcedFile, envFile, userFile, nidTmpFile,
                   outFile, debugFile, initial, exit, config, user, forced, user_config, log>>

\* Lines 131-138: os.rename(temp_path, user_config_path).  On POSIX rename
\* replaces an existing target without an error; it raises only when the
\* source is gone, and the handler then removes what is left of the temp.
main_rename_user(p) ==
    /\ pc[p] = "rename_user"
    /\ IF Exists(tmpFile[p])
       THEN /\ userFile' = tmpFile[p]
            /\ tmpFile' = [tmpFile EXCEPT ![p] = Absent]
            /\ Say(p, "created")
       ELSE /\ UNCHANGED <<userFile, tmpFile>>
            /\ Say(p, "created_by_another")
    /\ Goto(p, "ensure")
    /\ UNCHANGED <<cpuinfo, fault, argv, defaultFile, forcedFile, envFile, nidTmpFile,
                   outFile, debugFile, initial, exit, config, user, forced, user_config>>

\* ensure_node_id, lines 54-82: the overlay is read, the serial is read, and
\* the function either returns (no serial, id already correct, or an
\* exception caught at line 92) or goes on to write the overlay back.
ensure_node_id_read(p) ==
    /\ pc[p] = "ensure"
    /\ IF OpenRaises(userFile) \/ LoadRaises(userFile)
       THEN Goto(p, "load_user") /\ Say(p, "node_id_failed") /\ UNCHANGED user_config
       ELSE IF get_rpi_serial(cpuinfo) = NoSerial
       THEN /\ Goto(p, "load_user") /\ Say(p, "node_id_skipped")
            /\ user_config' = [user_config EXCEPT ![p] = LoadedOrEmpty(userFile)]
       ELSE IF NodeIdRaises(LoadedOrEmpty(userFile))
       THEN /\ Goto(p, "load_user") /\ Say(p, "node_id_failed")
            /\ user_config' = [user_config EXCEPT ![p] = LoadedOrEmpty(userFile)]
       ELSE IF /\ HasNodeId(LoadedOrEmpty(userFile))
               /\ LoadedOrEmpty(userFile).v["network"].v["node_id"]
                      = NodeId(get_rpi_serial(cpuinfo))
       THEN /\ Goto(p, "load_user") /\ Say(p, "node_id_correct")
            /\ user_config' = [user_config EXCEPT ![p] = LoadedOrEmpty(userFile)]
       ELSE /\ Goto(p, "node_id_open") /\ UNCHANGED log
            /\ user_config' = [user_config EXCEPT ![p] =
                   SetNodeId(LoadedOrEmpty(userFile), NodeId(get_rpi_serial(cpuinfo)))]
    /\ UNCHANGED <<cpuinfo, fault, argv, defaultFile, forcedFile, envFile, userFile, tmpFile, nidTmpFile,
                   outFile, debugFile, initial, exit, config, user, forced>>

\* A variant that opens the overlay's own path for writing, not a temp file.
ensure_node_id_open_in_place(p) ==
    /\ pc[p] = "node_id_open"
    /\ IF fault = "node_id_open"
       THEN Goto(p, "load_user") /\ Say(p, "node_id_failed") /\ UNCHANGED userFile
       ELSE /\ userFile' = Partial
            /\ Goto(p, "node_id_close") /\ UNCHANGED log
    /\ nidTmpFile' = [nidTmpFile EXCEPT ![p] = IF fault = "node_id_open" THEN @ ELSE Partial]
    /\ UNCHANGED <<cpuinfo, fault, argv, defaultFile, forcedFile, envFile, tmpFile,
                   outFile, debugFile, initial, exit, config, user, forced, user_config>>

\* Line 86: open(temp_path, 'w') creates/truncates the temp file; when the
\* call raises (OSError), the handler of line 92 prints and returns.
ensure_node_id_open(p) ==
    /\ pc[p] = "node_id_open"
    /\ IF fault = "node_id_open"
       THEN Goto(p, "load_user") /\ Say(p, "node_id_failed") /\ UNCHANGED nidTmpFile
       ELSE /\ nidTmpFile' = [nidTmpFile EXCEPT ![p] = Partial]
            /\ Goto(p, "node_id_close") /\ UNCHANGED log
    /\ UNCHANGED <<cpuinfo, fault, argv, defaultFile, forcedFile, envFile, userFile, tmpFile,
                   outFile, debugFile, initial, exit, config, user, forced, user_config>>

\* Line 87: yaml.dump, and the file is closed; when a write raises (OSError)
\* the temp file stays as far as it was written and the handler returns.
ensure_node_id_close(p) ==
    /\ pc[p] = "node_id_close"
    /\ IF fault = "node_id_dump"
       THEN Goto(p, "load_user") /\ Say(p, "node_id_failed") /\ UNCHANGED nidTmpFile
       ELSE /\ nidTmpFile' = [nidTmpFile EXCEPT ![p] = dump(user_config[p])]
            /\ Goto(p, "node_id_rename") /\ UNCHANGED log
    /\ UNCHANGED <<cpuinfo, fault, argv, defaultFile, forcedFile, envFile, userFile, tmpFile,
                   outFile, debugFile, initial, exit, config, user, forced, user_config>>

\* Lines 88-90: os.rename(temp_path, user_config_path); when it raises the
\* temp file stays and the handler returns.
ensure_node_id_rename(p) ==
    /\ pc[p] = "node_id_rename"
    /\ IF Exists(nidTmpFile[p]) /\ fault # "node_id_rename"
       THEN /\ userFile' = nidTmpFile[p]
            /\ nidTmpFile' = [nidTmpFile EXCEPT ![p] = Absent]
            /\ Say(p, "node_id_set")
       ELSE /\ UNCHANGED <<userFile, nidTmpFile>>
            /\ Say(p, "node_id_failed")
    /\ Goto(p, "load_user")
    /\ UNCHANGED <<cpuinfo, fault, argv, defaultFile, forcedFile, envFile, tmpFile,
                   outFile, debugFile, initial, exit, config, user, forced, user_config>>

\* Lines 144-153: the overlay, if it exists, is loaded and merged into config.
main_load_user(p) ==
    /\ pc[p] = "load_user"
    /\ IF ~Exists(userFile)
       THEN Goto(p, "load_forced") /\ UNCHANGED <<exit, log, user, config>>
       ELSE IF OpenRaises(userFile) \/ LoadRaises(userFile)
       THEN Die(p, "error") /\ UNCHANGED <<user, config>>
       ELSE IF ~Truthy(safe_load(userFile))
       THEN /\ user' = [user EXCEPT ![p] = safe_load(userFile)]
            /\ Goto(p, "load_forced") /\ Say(p, "user_empty")
            /\ UNCHANGED <<exit, config>>
       ELSE IF MergeRaises(config[p], safe_load(userFile))
       THEN /\ user' = [user EXCEPT ![p] = safe_load(userFile)]
            /\ Die(p, "error") /\ UNCHANGED config
       ELSE /\ user' = [user EXCEPT ![p] = safe_load(userFile)]
            /\ config' = [config EXCEPT ![p] = MergeUser(config[p], safe_load(userFile))]
            /\ Goto(p, "load_forced") /\ Say(p, "user_applied")
            /\ UNCHANGED exit
    /\ UNCHANGED <<cpuinfo, fault, argv, defaultFile, forcedFile, envFile, userFile, tmpFile, nidTmpFile,
                   outFile, debugFile, initial, forced, user_config>>

\* Lines 156-163: forced.yml, if it exists, is loaded and merged into config.
main_load_forced(p) ==
    /\ pc[p] = "load_forced"
    /\ IF ~Exists(forcedFile)
       THEN Goto(p, "out_open") /\ UNCHANGED <<exit, log, forced, config>>
       ELSE IF OpenRaises(forcedFile) \/ LoadRaises(forcedFile)
       THEN Die(p, "error") /\ UNCHANGED <<forced, config>>
       ELSE IF ~Truthy(safe_load(forcedFile))
       THEN /\ forced' = [forced EXCEPT ![p] = safe_load(forcedFile)]
            /\ Goto(p, "out_open")
            /\ UNCHANGED <<exit, log, config>>
       ELSE IF MergeRaises(config[p], safe_load(forcedFile))
       THEN /\ forced' = [forced EXCEPT ![p] = safe_load(forcedFile)]
            /\ Die(p, "error") /\ UNCHANGED config
       ELSE /\ forced' = [forced EXCEPT ![p] = safe_load(forcedFile)]
            /\ config' = [config EXCEPT ![p] = MergeForced(config[p], safe_load(forcedFile))]
            /\ Goto(p, "out_open") /\ Say(p, "forced_applied")
            /\ UNCHANGED exit
    /\ UNCHANGED <<cpuinfo, fault, argv, defaultFile, forcedFile, envFile, userFile, tmpFile, nidTmpFile,
                   outFile, debugFile, initial, user, user_config>>

\* Lines 167-168: open(output_config_path, 'w') truncates the output in place.
main_output_open(p) ==
    /\ pc[p] = "out_open"
    /\ outFile' = [outFile EXCEPT ![p] = Partial]
    /\ Goto(p, "out_close")
    /\ UNCHANGED <<cpuinfo, fault, argv, defaultFile, forcedFile, envFile, userFile, tmpFile, nidTmpFile,
                   debugFile, initial, exit, config, user, forced, user_config, log>>

\* A variant that also writes a tar1090.env beside the output, whether or
\* not the tree holds the section.
main_output_close_with_env(p) ==
    /\ pc[p] = "out_close"
    /\ outFile' = [outFile EXCEPT ![p] = dump(config[p])]
    /\ envFile' = [envFile EXCEPT ![p] = Text(EmptyMap, "dump")]
    /\ IF argv[p].debug
       THEN Goto(p, "debug_open") /\ UNCHANGED <<exit, log>>
       ELSE Goto(p, "done") /\ Say(p, "completed") /\ UNCHANGED exit
    /\ UNCHANGED <<cpuinfo, fault, argv, defaultFile, forcedFile, userFile, tmpFile, nidTmpFile,
                   debugFile, initial, config, user, forced, user_config>>

\* Lines 169-172: yaml.dump, the file is closed; then `if debug_copy_path`.
main_output_close(p) ==
    /\ pc[p] = "out_close"
    /\ outFile' = [outFile EXCEPT ![p] = dump(config[p])]
    /\ IF argv[p].debug
       THEN Goto(p, "debug_open") /\ UNCHANGED <<exit, log>>
       ELSE Goto(p, "done") /\ Say(p, "completed") /\ UNCHANGED exit
    /\ UNCHANGED <<cpuinfo, fault, argv, defaultFile, forcedFile, envFile, userFile, tmpFile, nidTmpFile,
                   debugFile, initial, config, user, forced, user_config>>

\* Lines 173-175, first half: shutil.copy creates/truncates the debug copy;
\* when os.makedirs or the open inside shutil.copy raises (OSError), the
\* exception reaches the handler of lines 179-183.
main_debug_open(p) ==
    /\ pc[p] = "debug_open"
    /\ IF fault = "debug_copy"
       THEN Die(p, "error") /\ UNCHANGED debugFile
       ELSE /\ debugFile' = [debugFile EXCEPT ![p] = Partial]
            /\ Goto(p, "debug_close")
            /\ UNCHANGED <<exit, log>>
    /\ UNCHANGED <<cpuinfo, fault, argv, defaultFile, forcedFile, envFile, userFile, tmpFile, nidTmpFile,
                   outFile, initial, config, user, forced, user_config>>

\* Lines 175-177: the bytes of the output are in the debug copy; main returns.
main_debug_close(p) ==
    /\ pc[p] = "debug_close"
    /\ debugFile' = [debugFile EXCEPT ![p] = copy(outFile[p])]
    /\ Goto(p, "done") /\ Say(p, "completed")
    /\ UNCHANGED <<cpuinfo, fault, argv, defaultFile, forcedFile, envFile, userFile, tmpFile, nidTmpFile,
                   outFile, initial, exit, config, user, forced, user_config>>

Next ==
    \E p \in Procs :
        \/ main_load_default(p)
        \/ main_check_user(p)
        \/ main_copy_open(p)
        \/ main_copy_close(p)
        \/ main_rename_user(p)
        \/ ensure_node_id_read(p)
        \/ ensure_node_id_open(p)
        \/ ensure_node_id_close(p)
        \/ ensure_node_id_rename(p)
        \/ main_load_user(p)
        \/ main_load_forced(p)
        \/ main_output_open(p)
        \/ main_output_close(p)
        \/ main_debug_open(p)
        \/ main_debug_close(p)

---------------------------------------------------------------------------
(* Inputs: the trees, the hardware descriptors and the command lines the   *)
(* runs start from                                                         *)

\* The trees of one layer, built from that layer's own scalar `s` and list
\* `l`: an optional scalar 'a' beside an optional 'network' that is a scalar,
\* a list, or a mapping of node_id (scalar or list) and x (scalar, list, or a
\* mapping one level deeper that holds the keys `deep`).
LayerTrees(s, l, deep, withA) ==
    LET below == Mp([k \in deep |-> Sc(s)])
        inner == {Mp(f) : f \in UNION {[S -> {Sc(s), Sq(l), below}] : S \in SUBSET {"node_id", "x"}}}
        nets == {n \in inner : ~HasKey(n, "node_id") \/ ~IsMap(n.v["node_id"])}
                    \cup {Sc(s), Sq(l)}
        as == IF withA THEN {Sc(s)} ELSE {}
    IN {Mp(f) : f \in {g \in UNION {[S -> nets \cup as] : S \in SUBSET {"network", "a"}} :
                          /\ ("a" \in DOMAIN g => g["a"] \in as)
                          /\ ("network" \in DOMAIN g => g["network"] \in nets)}}

DefaultTrees == LayerTrees(<<49>>, <<1, 2, 3>>, {"y", "z"}, TRUE) \ {EmptyMap}
UserTrees == LayerTrees(<<50>>, <<4, 5>>, {"y"}, TRUE)
ForcedTrees == LayerTrees(<<51>>, <<6>>, {"y"}, FALSE)

\* Serial lines ("10000000abcdEF12", "9abcdEF12", "abcdEF1", "00000000") and
\* the node id the first two give.
SerialA == <<49, 48, 48, 48, 48, 48, 48, 48, 97, 98, 99, 100, 69, 70, 49, 50>>
SerialNine == <<57, 97, 98, 99, 100, 69, 70, 49, 50>>
SerialShort == <<97, 98, 99, 100, 69, 70, 49>>
SerialEight == <<48, 48, 48, 48, 48, 48, 48, 48>>
IdA == NodeId(<<97, 98, 99, 100, 69, 70, 49, 50>>)

Cpu(r, rasp, bcm, lines) == [readable |-> r, raspberry |-> rasp, bcm |-> bcm, serials |-> lines]
NotPi == Cpu(TRUE, FALSE, FALSE, <<>>)
PiA == Cpu(TRUE, TRUE, FALSE, <<SerialA>>)
Descriptors ==
    { Cpu(FALSE, FALSE, FALSE, <<>>),            \* no /proc/cpuinfo
      NotPi,
      Cpu(TRUE, FALSE, FALSE, <<SerialA>>),      \* a serial, but not the family
      Cpu(TRUE, TRUE, FALSE, <<>>),              \* the family, no Serial line
      PiA,
      Cpu(TRUE, FALSE, TRUE, <<SerialNine>>),
      Cpu(TRUE, TRUE, FALSE, <<SerialEight>>),   \* eight zeros: not the placeholder
      Cpu(TRUE, TRUE, TRUE, <<Placeholder>>),
      Cpu(TRUE, TRUE, FALSE, <<SerialShort>>),
      Cpu(TRUE, TRUE, FALSE, <<SerialShort, SerialA>>) }

\* A merged output left by an earlier run.
OldOutput == Text(Mp([a |-> Sc(<<57>>)]), "dump")

Net(n) == Mp([network |-> n])
SmallDefaults ==
    { Mp([a |-> Sc(<<49>>)]),
      Mp([network |-> Mp([x |-> Sc(<<49>>)]), a |-> Sc(<<49>>)]),
      Net(Mp([node_id |-> Sc(<<49>>), x |-> Sq(<<1, 2, 3>>)])),
      Net(Sc(<<49>>)),
      Sq(<<1, 2, 3>>) }                            \* a list, not a mapping
SmallUsers ==
    { Absent,
      Text(Null, "src"),                                   \* an empty file
      Text(EmptyMap, "src"),                               \* {}
      Text(Bad, "src"),                                    \* malformed
      Text(Sq(<<4, 5>>), "src"),                           \* a list, not a mapping
      Text(Net(Mp([node_id |-> IdA])), "dump"),
      Text(Net(Mp([node_id |-> Sc(<<50>>), x |-> Sc(<<50>>)])), "src"),
      Text(Mp([a |-> Sc(<<50>>)]), "src") }
SmallForced ==
    { Absent,
      Text(EmptyMap, "src"),
      Text(Bad, "src"),
      Text(Net(Mp([node_id |-> Sc(<<51>>)])), "src") }
BadDefaults == {Absent, NoPerm, Text(Bad, "src"), Text(Null, "src"), Text(EmptyMap, "src")}

Argvs == {[len |-> 4, debug |-> FALSE], [len |-> 5, debug |-> FALSE], [len |-> 5, debug |-> TRUE]}

\* The state before any invocation runs: `running` is the set of invocations
\* that are started, `queued` the set of those that are started one after the
\* other once the invocations before them have exited, `old` is what the
\* output and debug paths hold, `env` what the tar1090.env path holds, and
\* `flt` the system call that fails.
StartWith(running, queued, cpu, flt, av, def, usr, frc, old, env) ==
    /\ cpuinfo = cpu
    /\ fault = flt
    /\ envFile = [p \in Procs |-> env]
    /\ argv = [p \in Procs |-> av]
    /\ defaultFile = def
    /\ forcedFile = frc
    /\ userFile = usr
    /\ tmpFile = [p \in Procs |-> Absent]
    /\ nidTmpFile = [p \in Procs |-> Absent]
    /\ outFile = [p \in Procs |-> old]
    /\ debugFile = [p \in Procs |-> old]
    /\ initial = [user |-> usr, out |-> [p \in Procs |-> old], debug |-> [p \in Procs |-> old],
                  env |-> [p \in Procs |-> env]]
    /\ pc = [p \in Procs |-> IF p \in running THEN "start"
                              ELSE IF p \in queued THEN "queued" ELSE "off"]
    /\ exit = [p \in Procs |-> 0]
    /\ config = [p \in Procs |-> Null]
    /\ user = [p \in Procs |-> Null]
    /\ forced = [p \in Procs |-> Null]
    /\ user_config = [p \in Procs |-> Null]
    /\ log = [p \in Procs |-> {}]

\* No system call fails, no tar1090.env is there, nothing is queued.
Start(running, cpu, av, def, usr, frc, old) ==
    StartWith(running, {}, cpu, "none", av, def, usr, frc, old, Absent)

\* One invocation alone.
InitSeq ==
    \/ \E d \in DefaultTrees, u \in UserTrees, f \in ForcedTrees \cup {Null} :
          Start({1}, NotPi, [len |-> 5, debug |-> TRUE], Text(d, "src"), Text(u, "src"),
                IF f = Null THEN Absent ELSE Text(f, "src"), Absent)
    \/ \E cpu \in Descriptors, av \in Argvs, d \in SmallDefaults, u \in SmallUsers,
          f \in SmallForced, old \in {Absent, OldOutput} :
          Start({1}, cpu, av, Text(d, "src"), u, f, old)
    \/ \E cpu \in {NotPi, PiA}, av \in Argvs, d \in BadDefaults, u \in {Absent, Text(EmptyMap, "src")},
          old \in {Absent, OldOutput} :
          Start({1}, cpu, av, d, u, Absent, old)

\* All invocations started together on the same files.
Init ==
    \/ \E cpu \in {NotPi, PiA}, dbg \in BOOLEAN,
          d \in {Mp([a |-> Sc(<<49>>)]), Mp([network |-> Mp([x |-> Sc(<<49>>)]), a |-> Sc(<<49>>)])},
          u \in {Absent, Text(Net(Mp([node_id |-> IdA])), "dump"), Text(Mp([a |-> Sc(<<50>>)]), "src")},
          f \in {Absent, Text(Net(Mp([x |-> Sc(<<51>>)])), "src")} :
          Start(Procs, cpu, [len |-> 5, debug |-> dbg], Text(d, "src"), u, f, OldOutput)
    \/ \E d \in {Absent, Text(Null, "src")}, old \in {Absent, OldOutput} :
          Start(Procs, PiA, [len |-> 5, debug |-> TRUE], d, Absent, Absent, old)

\* Invocations run one after the other on the same files (each invocation's
\* entry of outFile and debugFile is the path as that invocation leaves it).
InitTwice ==
    \E cpu \in {NotPi, PiA, Cpu(TRUE, TRUE, FALSE, <<SerialShort>>),
                 Cpu(TRUE, TRUE, FALSE, <<SerialShort, SerialA>>)},
       av \in Argvs, d \in SmallDefaults, u \in SmallUsers, f \in SmallForced,
       old \in {Absent, OldOutput} :
       StartWith({1}, Procs \ {1}, cpu, "none", av, Text(d, "src"), u, f, old, Absent)

\* The system calls of lines 86-88 and of lines 174-175 that may fail, and an
\* overlay that may not be read.
Faults == {"none", "node_id_open", "node_id_dump", "node_id_rename", "debug_copy"}
FaultUsers == SmallUsers \cup {NoPerm}

\* One invocation alone, in which one system call fails.
InitFault ==
    \E cpu \in {NotPi, PiA, Cpu(TRUE, FALSE, TRUE, <<SerialNine>>)}, flt \in Faults,
       dbg \in BOOLEAN, d \in SmallDefaults, u \in FaultUsers,
       f \in {Absent, Text(Net(Mp([node_id |-> Sc(<<51>>)])), "src")} :
       StartWith({1}, {}, cpu, flt, [len |-> 5, debug |-> dbg], Text(d, "src"), u, f, OldOutput, Absent)

\* The tar1090 section of the tests (test_merge_config.py, lines 207-217 and
\* 370-381): a boolean (True is 1), a radius, a location, and the optional
\* data source, which may be the empty string.
Location == Mp([latitude |-> Sc(<<45, 51, 52>>), longitude |-> Sc(<<49, 51, 56>>),
                altitude |-> Sc(<<49, 49, 48>>)])
Tar(fallback, radius) ==
    Mp([adsblol_fallback |-> Sc(<<fallback>>), adsblol_radius |-> Sc(radius), location |-> Location])
TarFrom(fallback, radius, source) == SetKey(Tar(fallback, radius), "adsb_source", Sc(source))
Tar1090(section) == Mp([tar1090 |-> section])
EnvDefaults ==
    { Mp([tar1090 |-> Tar(1, <<53, 48>>), a |-> Sc(<<49>>)]),
      Tar1090(TarFrom(1, <<53, 48>>, <<>>)),
      Tar1090(TarFrom(0, <<52, 48>>, <<108, 111, 108>>)),
      Mp([a |-> Sc(<<49>>)]) }
EnvUsers ==
    { Absent,
      Text(EmptyMap, "src"),
      Text(Tar1090(Mp([adsblol_radius |-> Sc(<<49, 48, 48>>), adsb_source |-> Sc(<<108, 111, 108>>)])), "src"),
      Text(Tar1090(Mp([adsb_source |-> Sc(<<>>)])), "src"),
      Text(Mp([a |-> Sc(<<50>>)]), "src") }
EnvForced ==
    { Absent,
      Text(Tar1090(Mp([adsblol_fallback |-> Sc(<<0>>)])), "src") }
\* A tar1090.env left by an earlier run.
StaleEnv ==
    Text(Mp([RECEIVER_LAT |-> Sc(<<48>>), RECEIVER_LON |-> Sc(<<48>>), RECEIVER_ALT |-> Sc(<<48>>),
             ADSBLOL_ENABLED |-> Sc(<<116, 114, 117, 101>>), ADSBLOL_RADIUS |-> Sc(<<52, 48>>)]), "src")

\* One invocation alone, on layers with and without a tar1090 section, in an
\* output directory with and without a tar1090.env.
InitEnv ==
    \E cpu \in {NotPi, PiA}, av \in Argvs, d \in EnvDefaults, u \in EnvUsers, f \in EnvForced,
       env \in {Absent, StaleEnv} :
       StartWith({1}, {}, cpu, "none", av, Text(d, "src"), u, f, Absent, env)

Spec == Init /\ [][Next]_vars
SpecSeq == InitSeq /\ [][Next]_vars
SpecTwice == InitTwice /\ [][Next]_vars
SpecFault == InitFault /\ [][Next]_vars
SpecEnv == InitEnv /\ [][Next]_vars

---------------------------------------------------------------------------
(* Vocabulary of the properties                                            *)

Missing == [t |-> "missing", v |-> <<>>]
IsLeaf(n) == n.t \in {"scalar", "seq"}

\* The value a tree holds at a key path, Missing when it defines none.
RECURSIVE At(_, _)
At(n, path) ==
    IF path = <<>> THEN n
    ELSE IF HasKey(n, Head(path)) THEN At(n.v[Head(path)], Tail(path))
    ELSE Missing

\* The key paths a tree defines (the empty path is the tree itself).
RECURSIVE PathsOf(_)
PathsOf(n) ==
    IF ~IsMap(n) THEN {<<>>}
    ELSE {<<>>} \cup UNION {{<<k>> \o q : q \in PathsOf(n.v[k])} : k \in DOMAIN n.v}

LeafPaths(n) == {q \in PathsOf(n) : q # <<>> /\ IsLeaf(At(n, q))}

\* The tree holds a scalar or a sequence at the path or at a prefix of it.
LeafOnTheWay(n, path) == \E i \in 1 .. Len(path) : IsLeaf(At(n, SubSeq(path, 1, i)))

NodeIdPath == <<"network", "node_id">>

\* What a document says outside network.node_id: its scalar and sequence
\* values with their paths.
OutsideNodeId(n) == {<<q, At(n, q)>> : q \in LeafPaths(n) \ {NodeIdPath}}

\* The layers as the files hold them (an absent or empty layer defines nothing).
Layer(f) == IF f.st = "text" /\ f.doc.t = "map" THEN f.doc ELSE EmptyMap
D == Layer(defaultFile)
F == Layer(forcedFile)

\* The invocation was given the arguments main requires.
WellInvoked(p) == argv[p].len = 5
Succeeded(p) == pc[p] = "done" /\ exit[p] = 0
\* The overlay this run loaded at line 147 (nothing when it loaded none).
U(p) == IF IsMap(user[p]) THEN user[p] ELSE EmptyMap
Out(p) == outFile[p].doc

\* Steps of main that apply an overlay to `config`.
UserMergeStep(p) == pc[p] = "load_user" /\ pc'[p] = "load_forced" /\ Truthy(user'[p])
ForcedMergeStep(p) == pc[p] = "load_forced" /\ pc'[p] = "out_open" /\ Truthy(forced'[p])

---------------------------------------------------------------------------
(* C1: three-way precedence.  In the output of a successful run, every    *)
(* path the forced layer defines with a scalar or a sequence holds the     *)
(* forced value, whatever default and user hold there.                     *)
ForcedWins(p) == \A q \in LeafPaths(F) : At(Out(p), q) = At(F, q)

---------------------------------------------------------------------------
(* C2: deep merge preserves siblings.  In each merge main performs, at     *)
(* every path where base and overlay both hold a mapping, the keys of the  *)
(* base mapping that the overlay's mapping does not mention keep their     *)
(* base value in the result.                                               *)
SiblingsKept(base, overlay, merged) ==
    \A q \in PathsOf(base) :
        (IsMap(At(base, q)) /\ IsMap(At(overlay, q))) =>
            \A k \in Keys(At(base, q)) \ Keys(At(overlay, q)) :
                At(merged, q \o <<k>>) = At(base, q \o <<k>>)

\* C2: every merge step of main (user overlay, forced layer) keeps the
\* siblings the overlay does not mention, at every depth.
C2_SiblingsPreserved ==
    [][\A p \in Procs :
          /\ UserMergeStep(p) => SiblingsKept(config[p], user'[p], config'[p])
          /\ ForcedMergeStep(p) => SiblingsKept(config[p], forced'[p], config'[p])]_vars

\* The user overlay has been merged; default and overlay both hold mappings
\* two levels down, and the default's has a key the overlay's lacks.
C2_Witness ==
    \E p \in Procs :
        /\ pc[p] = "load_forced" /\ IsMap(user[p])
        /\ \E q \in PathsOf(D) :
              /\ Len(q) = 2 /\ IsMap(At(D, q)) /\ IsMap(At(user[p], q))
              /\ Keys(At(D, q)) \ Keys(At(user[p], q)) # {}
              /\ Keys(At(D, q)) \cap Keys(At(user[p], q)) # {}
              /\ \A k \in Keys(At(D, q)) \ Keys(At(user[p], q)) :
                    At(config[p], q \o <<k>>) = At(D, q \o <<k>>)

---------------------------------------------------------------------------
(* C3: non-mapping values are replaced wholesale.  In each merge main      *)
(* performs, at every path the overlay defines where base and overlay are  *)
(* not both mappings, the result holds exactly the overlay's value.        *)
Replaced(base, overlay, merged) ==
    \A q \in PathsOf(overlay) \ {<<>>} :
        ~(IsMap(At(base, q)) /\ IsMap(At(overlay, q))) => At(merged, q) = At(overlay, q)

\* C3: every merge step of main replaces wholesale where base and overlay are
\* not both mappings: no concatenation, no element-wise merge of sequences.
C3_ReplacedWholesale ==
    [][\A p \in Procs :
          /\ UserMergeStep(p) => Replaced(config[p], user'[p], config'[p])
          /\ ForcedMergeStep(p) => Replaced(config[p], forced'[p], config'[p])]_vars

\* The user overlay has been merged where it held a sequence over the
\* default's sequence and the result is the overlay's sequence alone.
C3_Witness ==
    \E p \in Procs :
        /\ pc[p] = "load_forced" /\ IsMap(user[p])
        /\ \E q \in PathsOf(user[p]) :
              /\ At(D, q).t = "seq" /\ At(user[p], q).t = "seq"
              /\ At(D, q) # At(user[p], q)
              /\ At(config[p], q) = At(user[p], q)

---------------------------------------------------------------------------
(* Vocabulary of the properties: the host and the files before the run     *)

DefaultValid == defaultFile.st = "text" /\ IsMap(defaultFile.doc) /\ defaultFile.doc # EmptyMap
DefaultUnusable ==
    \/ defaultFile.st \in {"absent", "noperm"}
    \/ defaultFile.doc \in {Bad, Null, EmptyMap}

IsFamily(cpu) == cpu.readable /\ (cpu.raspberry \/ cpu.bcm)
UsableLines(cpu) ==
    {i \in DOMAIN cpu.serials : Len(cpu.serials[i]) >= 8 /\ cpu.serials[i] # Placeholder}
HostHasSerial(cpu) == IsFamily(cpu) /\ UsableLines(cpu) # {}
\* 'ret' followed by the last 8 characters of the host's serial
ExpectedId(cpu) ==
    LET i == CHOOSE i \in UsableLines(cpu) : \A j \in UsableLines(cpu) : i <= j
        s == cpu.serials[i]
    IN Sc(<<114, 101, 116>> \o [j \in 1 .. 8 |-> s[Len(s) - 8 + j]])
NoIdentifier(cpu) ==
    \/ ~cpu.readable
    \/ ~cpu.raspberry /\ ~cpu.bcm
    \/ cpu.serials = <<>>
    \/ \A i \in DOMAIN cpu.serials : cpu.serials[i] = Placeholder \/ Len(cpu.serials[i]) < 8

\* A tree with network.node_id set to `id` (a network value that is not a
\* mapping gives way to the mapping that holds node_id alone).
WithNodeId(n, id) ==
    SetKey(n, "network",
           SetKey(IF HasKey(n, "network") /\ IsMap(n.v["network"]) THEN n.v["network"] ELSE EmptyMap,
                  "node_id", id))

EmptyOverlays ==
    /\ initial.user.st = "text" /\ initial.user.doc = EmptyMap
    /\ forcedFile.st = "absent" \/ (forcedFile.st = "text" /\ forcedFile.doc = EmptyMap)

---------------------------------------------------------------------------
(* C4: identity on empty overlays.                                         *)

\* C4 as stated: on every host, a run on a valid default tree, an empty
\* mapping as user overlay and an empty or missing forced layer writes an
\* output equal to the default tree.
C4_Identity_AsStated ==
    \A p \in Procs : (pc[p] = "done" /\ WellInvoked(p) /\ DefaultValid /\ EmptyOverlays) =>
        outFile[p].st = "text" /\ Out(p) = D

\* C4 as amended: the output equals the default tree on a host that yields
\* no node identifier; on a host with a usable serial it equals the default
\* tree with network.node_id set to the identifier of that host.
C4_Identity ==
    \A p \in Procs : (pc[p] = "done" /\ WellInvoked(p) /\ DefaultValid /\ EmptyOverlays) =>
        /\ outFile[p].st = "text"
        /\ Out(p) = IF HostHasSerial(cpuinfo) THEN WithNodeId(D, ExpectedId(cpuinfo)) ELSE D

\* A finished run on empty overlays, on a host without identifier, whose
\* output is the default tree, nested mappings included.
C4_Witness ==
    \E p \in Procs :
        /\ pc[p] = "done" /\ exit[p] = 0 /\ DefaultValid /\ EmptyOverlays
        /\ ~HostHasSerial(cpuinfo)
        /\ \E q \in LeafPaths(D) : Len(q) = 3
        /\ Out(p) = D

---------------------------------------------------------------------------
(* C5: initial user overlay.  When a single invocation starts without a    *)
(* user overlay and with a valid default layer, then at its end the        *)
(* overlay exists and says what the default layer says, except at most at  *)
(* network.node_id.                                                        *)
C5_InitialOverlay ==
    \A p \in Procs : (pc[p] = "done" /\ WellInvoked(p) /\ DefaultValid /\ initial.user = Absent) =>
        /\ userFile.st = "text" /\ IsMap(userFile.doc)
        /\ OutsideNodeId(userFile.doc) = OutsideNodeId(D)

\* A finished run that created the overlay and injected the identifier into it.
C5_Witness ==
    \E p \in Procs :
        /\ pc[p] = "done" /\ initial.user = Absent /\ DefaultValid
        /\ {"created", "node_id_set"} \subseteq log[p]
        /\ LeafPaths(D) \ {NodeIdPath} # {}
        /\ At(userFile.doc, NodeIdPath) # At(D, NodeIdPath)

---------------------------------------------------------------------------
(* C6: creation race.  With the overlay absent at the start, its path      *)
(* never holds a partially written file, whatever the interleaving, and    *)
(* once every invocation has finished it holds one complete version: the   *)
(* copy of default.yml, or that content with the node identifier set.      *)
C6_CreationRace ==
    initial.user = Absent =>
        /\ userFile.st # "partial"
        /\ (DefaultValid /\ \A p \in Procs : pc[p] = "done" /\ WellInvoked(p)) =>
              /\ userFile.st = "text" /\ IsMap(userFile.doc)
              /\ OutsideNodeId(userFile.doc) = OutsideNodeId(D)
              /\ \/ userFile = defaultFile
                 \/ userFile.fmt = "dump" /\ At(userFile.doc, NodeIdPath) = ExpectedId(cpuinfo)

\* Every invocation found the overlay absent, every one renamed its own copy
\* onto the path, and all have finished.
C6_Witness ==
    /\ initial.user = Absent
    /\ \A p \in Procs : pc[p] = "done" /\ "created" \in log[p]
    /\ userFile.st = "text"

---------------------------------------------------------------------------
(* C7: atomic publication of the primary output.  At every moment of a    *)
(* run the output path holds complete content: what it held before the     *)
(* run, or the merged tree.                                                *)
C7_OutputNeverPartial ==
    \A p \in Procs :
        \/ outFile[p] = initial.out[p]
        \/ outFile[p].st = "text" /\ outFile[p].doc = config[p]

---------------------------------------------------------------------------
(* C8: fatal default layer.  When default.yml is missing, unreadable,      *)
(* malformed or empty, main ends with a non-zero exit code and the user    *)
(* overlay, the output and the debug copy are as they were before the run. *)
C8_FatalDefault ==
    \A p \in Procs : (pc[p] = "done" /\ DefaultUnusable) =>
        /\ exit[p] # 0
        /\ userFile = initial.user
        /\ outFile[p] = initial.out[p]
        /\ debugFile[p] = initial.debug[p]

\* A run on an empty default document has ended with exit code 1; there was
\* no user overlay and there is none, and the earlier output is untouched.
C8_Witness ==
    \E p \in Procs :
        /\ pc[p] = "done" /\ exit[p] = 1 /\ WellInvoked(p)
        /\ defaultFile.st = "text" /\ defaultFile.doc = EmptyMap
        /\ initial.user = Absent /\ userFile = Absent
        /\ initial.out[p] # Absent /\ outFile[p] = initial.out[p]

---------------------------------------------------------------------------
(* C9: node-id injection.  On a host of the family with a usable serial,   *)
(* when ensure_node_id returns without a caught failure the overlay on     *)
(* disk holds network.node_id = 'ret' + the last 8 characters of the       *)
(* serial, and says outside network.node_id what it said before the call.  *)
EnsureReturns(p) == pc[p] \in {"ensure", "node_id_rename"} /\ pc'[p] = "load_user"

\* C9: every return of ensure_node_id without a caught failure, on a host
\* with a usable serial, leaves the identifier of that host in the overlay
\* and the rest of the overlay as it was.
C9_NodeIdInjected ==
    [][\A p \in Procs :
          (EnsureReturns(p) /\ HostHasSerial(cpuinfo) /\ "node_id_failed" \notin log'[p]) =>
              /\ userFile'.st = "text"
              /\ At(userFile'.doc, NodeIdPath) = ExpectedId(cpuinfo)
              /\ OutsideNodeId(userFile'.doc) = OutsideNodeId(userFile.doc)]_vars

\* ensure_node_id has returned after replacing another identifier in an
\* overlay that holds other keys too.
C9_Witness ==
    \E p \in Procs :
        /\ pc[p] = "load_user" /\ "node_id_set" \in log[p]
        /\ At(initial.user.doc, NodeIdPath) \notin {Missing, ExpectedId(cpuinfo)}
        /\ OutsideNodeId(initial.user.doc) # {}
        /\ At(userFile.doc, NodeIdPath) = ExpectedId(cpuinfo)

---------------------------------------------------------------------------
(* C10: no identifier, no modification.  When the descriptor is            *)
(* unavailable, is not of the family, has no Serial field, or its serial   *)
(* is the placeholder or shorter than 8 characters, ensure_node_id returns *)
(* to main in the step that read the overlay: it writes neither the        *)
(* overlay nor a temporary file, ends no run, and main goes on to load and *)
(* merge the overlay.                                                      *)
C10_NoIdentifierNoWrite ==
    [][\A p \in Procs :
          (pc[p] = "ensure" /\ pc'[p] # "ensure" /\ NoIdentifier(cpuinfo)) =>
              /\ pc'[p] = "load_user"
              /\ userFile' = userFile
              /\ nidTmpFile' = nidTmpFile
              /\ exit' = exit]_vars

\* On a host of the family whose serial is too short, ensure_node_id has
\* returned and the overlay is the one the run started with.
C10_Witness ==
    \E p \in Procs :
        /\ pc[p] = "load_user" /\ "node_id_skipped" \in log[p]
        /\ IsFamily(cpuinfo) /\ cpuinfo.serials # <<>>
        /\ \A i \in DOMAIN cpuinfo.serials : Len(cpuinfo.serials[i]) < 8
        /\ initial.user.st = "text" /\ userFile = initial.user

---------------------------------------------------------------------------
(* C11: node-identity failures are contained.  When a step of              *)
(* ensure_node_id fails (the overlay cannot be opened or parsed, its       *)
(* content is not a mapping, or opening, writing or renaming the temporary *)
(* file raises), the overlay file is as it was when ensure_node_id was     *)
(* entered, the exit code is untouched and main is at the load-and-merge   *)
(* of the user overlay.                                                    *)
InEnsure(p) == pc[p] \in {"ensure", "node_id_open", "node_id_close", "node_id_rename"}
EnsureFails(p) == InEnsure(p) /\ "node_id_failed" \in log'[p]

\* The overlay when a single invocation enters ensure_node_id: the file it
\* started with, or the copy of default.yml it has just created.
OverlayAtEntry == IF initial.user = Absent THEN defaultFile ELSE initial.user

\* C11: every failing step of ensure_node_id leaves the overlay with the
\* content it had before the attempt, ends no run and hands over to line 144.
C11_FailuresContained ==
    [][\A p \in Procs :
          EnsureFails(p) =>
              /\ userFile' = OverlayAtEntry
              /\ exit' = exit
              /\ pc'[p] = "load_user"]_vars

\* The write of the temporary file failed half way on a host with a usable
\* serial: ensure_node_id has returned, the cut temp file lies there, and the
\* overlay (a mapping with another identifier) is the one the run started with.
C11_Witness ==
    \E p \in Procs :
        /\ pc[p] = "load_user" /\ "node_id_failed" \in log[p]
        /\ fault = "node_id_dump" /\ nidTmpFile[p] = Partial
        /\ HostHasSerial(cpuinfo)
        /\ At(initial.user.doc, NodeIdPath) \notin {Missing, ExpectedId(cpuinfo)}
        /\ userFile = initial.user

---------------------------------------------------------------------------
(* C12: loader errors of the optional layers are contained.               *)

\* The file exists and its text is not YAML.
Malformed(f) == f.st = "text" /\ f.doc = Bad
\* The file is missing, empty, or holds a mapping.
LayerOk(f) == f.st = "absent" \/ (f.st = "text" /\ (f.doc = Null \/ IsMap(f.doc)))

\* C12: when the user overlay or the forced layer exists and is malformed
\* (and the other is fine), the run exits with code 0 and its output is the
\* merge of the default tree with the remaining layers, the malformed one
\* counting as an empty mapping.
C12_LoaderErrorsContained ==
    \A p \in Procs :
        ( /\ pc[p] = "done" /\ WellInvoked(p) /\ DefaultValid
          /\ Malformed(userFile) \/ Malformed(forcedFile)
          /\ Malformed(userFile) \/ LayerOk(userFile)
          /\ Malformed(forcedFile) \/ LayerOk(forcedFile) ) =>
            /\ exit[p] = 0
            /\ outFile[p].st = "text"
            /\ Out(p) = merge(merge(D, Layer(userFile)), F)

---------------------------------------------------------------------------
(* Vocabulary of the properties: tar1090.env                               *)

\* The text of a scalar as a line of the file shows it.
ValueOf(n) == IF n.t = "scalar" THEN n.v ELSE <<>>
\* 'true' and 'false'
LiteralOf(n) == IF n = Sc(<<1>>) THEN <<116, 114, 117, 101>> ELSE <<102, 97, 108, 115, 101>>

\* The lines tar1090.env is to hold for a merged tree, as a mapping from the
\* variable names to their values.
EnvLines(tree) ==
    [RECEIVER_LAT |-> Sc(ValueOf(At(tree, <<"tar1090", "location", "latitude">>))),
     RECEIVER_LON |-> Sc(ValueOf(At(tree, <<"tar1090", "location", "longitude">>))),
     RECEIVER_ALT |-> Sc(ValueOf(At(tree, <<"tar1090", "location", "altitude">>))),
     ADSBLOL_ENABLED |-> Sc(LiteralOf(At(tree, <<"tar1090", "adsblol_fallback">>))),
     ADSBLOL_RADIUS |-> Sc(ValueOf(At(tree, <<"tar1090", "adsblol_radius">>)))]

HasSection(tree) == HasKey(tree, "tar1090")
\* tar1090.adsb_source is a non-empty string
HasSource(tree) ==
    /\ At(tree, <<"tar1090", "adsb_source">>).t = "scalar"
    /\ At(tree, <<"tar1090", "adsb_source">>).v # <<>>

---------------------------------------------------------------------------
(* C13: environment file generation.  After a successful run whose merged *)
(* tree has the tar1090 section, tar1090.env exists beside the output and  *)
(* holds the five lines with the values of the merged tree.                *)
C13_EnvFileGenerated ==
    \A p \in Procs : (Succeeded(p) /\ HasSection(Out(p))) =>
        /\ envFile[p].st = "text"
        /\ \A k \in DOMAIN EnvLines(Out(p)) :
              At(envFile[p].doc, <<k>>) = EnvLines(Out(p))[k]

---------------------------------------------------------------------------
(* C14: no section, no environment file.  No step of a run whose tree     *)
(* holds no tar1090 section creates, rewrites or deletes tar1090.env (the  *)
(* tree only grows from the default layer to the merged tree, so a run     *)
(* whose merged tree has no section has none at any step).                 *)
C14_NoSectionNoEnvFile ==
    [][\A p \in Procs : ~HasSection(config'[p]) => envFile'[p] = envFile[p]]_vars

\* A run without tar1090 section in any layer has written its output and
\* exited with code 0, and the tar1090.env an earlier run left is as it was.
C14_Witness ==
    \E p \in Procs :
        /\ Succeeded(p) /\ outFile[p].st = "text" /\ ~HasSection(Out(p))
        /\ initial.env[p] = StaleEnv /\ envFile[p] = StaleEnv

---------------------------------------------------------------------------
(* C15: ADSB_SOURCE presence.  In the tar1090.env a successful run on a   *)
(* tree with the tar1090 section leaves, the line ADSB_SOURCE is present   *)
(* exactly when tar1090.adsb_source of the merged tree is a non-empty      *)
(* string, and then holds that string.                                     *)
C15_AdsbSourcePresence ==
    \A p \in Procs : (Succeeded(p) /\ HasSection(Out(p))) =>
        /\ HasKey(envFile[p].doc, "ADSB_SOURCE") <=> HasSource(Out(p))
        /\ HasSource(Out(p)) =>
              At(envFile[p].doc, <<"ADSB_SOURCE">>) = At(Out(p), <<"tar1090", "adsb_source">>)

---------------------------------------------------------------------------
(* C16: optional debug path.  An invocation with exactly three arguments  *)
(* (no debug copy path), a valid default layer and optional layers that    *)
(* are missing, empty or mappings ends with exit code 0, has written the   *)
(* merged output and has not touched the debug copy.                       *)
C16_DebugPathOptional ==
    \A p \in Procs :
        ( /\ pc[p] = "done" /\ argv[p].len = 4
          /\ DefaultValid /\ LayerOk(initial.user) /\ LayerOk(forcedFile) ) =>
            /\ exit[p] = 0
            /\ outFile[p].st = "text" /\ outFile[p].fmt = "dump"
            /\ debugFile[p] = initial.debug[p]

---------------------------------------------------------------------------
(* C17: run idempotence.  When main is run again after a run on the same  *)
(* default and forced layers and the same host, with nothing else writing  *)
(* the overlay in between, no step of the later run changes the node       *)
(* identifier the overlay holds, and the later run leaves the output with  *)
(* the content the run before it left.                                     *)
StoredId(f) == IF f.st = "text" THEN At(f.doc, NodeIdPath) ELSE Missing
SameContent(f, g) == f.st = g.st /\ f.doc = g.doc

\* C17: every step of a run that follows another keeps the identifier in the
\* overlay, and at its end the output is the one of the run before.
C17_Idempotent ==
    [][\A p \in Procs :
          (p > 1 /\ pc'[p] # pc[p]) =>
              /\ StoredId(userFile') = StoredId(userFile)
              /\ pc'[p] = "done" => SameContent(outFile'[p], outFile'[p - 1])]_vars

\* The first run created the overlay and wrote the identifier into it, the
\* second found it correct, and both have written the same output.
C17_Witness ==
    \E p \in Procs :
        /\ p > 1 /\ Succeeded(p) /\ Succeeded(p - 1)
        /\ {"created", "node_id_set"} \subseteq log[p - 1]
        /\ "node_id_correct" \in log[p]
        /\ StoredId(userFile) = ExpectedId(cpuinfo)
        /\ outFile[p].st = "text" /\ Out(p) = Out(p - 1)

---------------------------------------------------------------------------
(* C18: the node identifier is never removed.  Once the overlay on disk   *)
(* holds a network.node_id entry, no step of any invocation, alone or      *)
(* interleaved with others, leaves the file without one.                   *)
C18_NodeIdNeverRemoved ==
    [][StoredId(userFile) # Missing => StoredId(userFile') # Missing]_vars

---------------------------------------------------------------------------
(* C19: lost creation race.  When an invocation that found the overlay    *)
(* absent and prepared its temporary copy comes to its rename and another  *)
(* invocation has published the overlay meanwhile, the step leaves the     *)
(* published content in place, removes the temporary file, reports that    *)
(* the overlay was created by another process and goes on without error.   *)
C19_LostCreationRace ==
    [][\A p \in Procs :
          (pc[p] = "rename_user" /\ pc'[p] # "rename_user" /\ Exists(userFile)) =>
              /\ userFile' = userFile
              /\ tmpFile'[p] = Absent
              /\ "created_by_another" \in log'[p] /\ "created" \notin log'[p]
              /\ pc'[p] = "ensure" /\ exit' = exit]_vars

---------------------------------------------------------------------------
(* C20: no write when already correct.  When ensure_node_id reads an      *)
(* overlay whose network.node_id is the identifier of the host's serial,   *)
(* it returns to main in that step: it opens no temporary file and leaves  *)
(* the overlay file alone.                                                 *)
C20_NoWriteWhenCorrect ==
    [][\A p \in Procs :
          ( /\ pc[p] = "ensure" /\ pc'[p] # "ensure"
            /\ HostHasSerial(cpuinfo)
            /\ StoredId(userFile) = ExpectedId(cpuinfo) ) =>
              /\ pc'[p] = "load_user"
              /\ userFile' = userFile
              /\ nidTmpFile' = nidTmpFile /\ tmpFile' = tmpFile]_vars

\* On a host whose second Serial line is the usable one, ensure_node_id has
\* found the stored identifier correct and returned; the overlay is the file
\* the run started with and no temporary file exists.
C20_Witness ==
    \E p \in Procs :
        /\ pc[p] = "load_user" /\ "node_id_correct" \in log[p]
        /\ Len(cpuinfo.serials) = 2
        /\ StoredId(initial.user) = ExpectedId(cpuinfo)
        /\ userFile = initial.user
        /\ nidTmpFile[p] = Absent /\ tmpFile[p] = Absent

---------------------------------------------------------------------------
(* C21: input layers are immutable.  No step of any run, successful or    *)
(* failing, writes, replaces or deletes default.yml or forced.yml; of the  *)
(* files a run reads, only the user overlay is ever changed.               *)
C21_InputsImmutable ==
    [][/\ defaultFile' = defaultFile
       /\ forcedFile' = forcedFile
       /\ cpuinfo' = cpuinfo]_vars

\* A run that created the overlay from default.yml, rewrote it with the node
\* identifier, applied forced.yml and wrote its output has ended; the two
\* layers are files with content.
C21_Witness ==
    \E p \in Procs :
        /\ Succeeded(p)
        /\ {"created", "node_id_set", "forced_applied"} \subseteq log[p]
        /\ userFile # initial.user
        /\ DefaultValid /\ forcedFile.st = "text"

---------------------------------------------------------------------------
(* C22: debug copy.  When a debug copy path is given, a run that ends     *)
(* with exit code 0 leaves a debug copy with the content of the output it  *)
(* wrote; and a run that has written its output ends with exit code 0,     *)
(* whether or not writing the debug copy fails.                            *)
OutputWritten(p) == outFile[p].st = "text" /\ outFile[p].doc = config[p] /\ outFile[p] # initial.out[p]

C22_DebugCopy ==
    \A p \in Procs : (pc[p] = "done" /\ argv[p].debug) =>
        /\ exit[p] = 0 => SameContent(debugFile[p], outFile[p])
        /\ OutputWritten(p) => exit[p] = 0

---------------------------------------------------------------------------
(* C23: the merged output carries the node identifier under concurrency.  *)
(* On a host with a usable serial, with the overlay absent at the start    *)
(* and no network.node_id in the default and forced layers, every          *)
(* invocation that ends with exit code 0 has written an output whose       *)
(* network.node_id is 'ret' plus the last 8 characters of the serial.      *)
C23_OutputCarriesNodeId ==
    \A p \in Procs :
        ( /\ Succeeded(p) /\ HostHasSerial(cpuinfo) /\ initial.user = Absent
          /\ At(D, NodeIdPath) = Missing /\ At(F, NodeIdPath) = Missing ) =>
            /\ outFile[p].st = "text"
            /\ At(Out(p), NodeIdPath) = ExpectedId(cpuinfo)

====
